---- MODULE Spec2Model ----
(***************************************************************************)
(* optimg: resize/transcode one image through the lilliput codec.          *)
(* The model follows the latest revision of the program (the one with the  *)
(* -max, -min and -n flags): its dimension resolution, its output-file     *)
(* guard and the order of the steps of main.                               *)
(***************************************************************************)
EXTENDS Integers, Sequences, FiniteSets, TLC

(***************************************************************************)
(* float64 arithmetic.  A positive float64 is sig * 2^exp with             *)
(* 2^52 <= sig < 2^53; sig is kept as little-endian limbs in base 2^15     *)
(* (four limbs, the top one in 128..255), so that no intermediate value    *)
(* exceeds 32 bits.  Every operation computes the exact result and rounds  *)
(* it to nearest, ties to even, as IEEE 754 does.                          *)
(***************************************************************************)
LimbBase == 32768

LimbBits == 15

RECURSIVE Pow2(_)
Pow2(k) == IF k = 0 THEN 1 ELSE 2 * Pow2(k - 1)

RECURSIVE Trim(_)
Trim(n) ==
    IF n = <<>> THEN <<>>
    ELSE IF n[Len(n)] = 0 THEN Trim(SubSeq(n, 1, Len(n) - 1))
    ELSE n

RECURSIVE MulCarry(_, _, _)
MulCarry(n, c, carry) ==
    IF n = <<>>
    THEN IF carry = 0 THEN <<>>
         ELSE <<carry % LimbBase>> \o MulCarry(<<>>, c, carry \div LimbBase)
    ELSE LET t == Head(n) * c + carry
         IN  <<t % LimbBase>> \o MulCarry(Tail(n), c, t \div LimbBase)

\* n * c, exactly, for a small non-negative c
MulSmall(n, c) == Trim(MulCarry(n, c, 0))

RECURSIVE DivRem(_, _)
DivRem(n, c) ==
    IF n = <<>> THEN [q |-> <<>>, r |-> 0]
    ELSE LET hi == DivRem(Tail(n), c)
             t  == hi.r * LimbBase + Head(n)
         IN  [q |-> <<t \div c>> \o hi.q, r |-> t % c]

\* floor(n / c) and whether anything was left over
DivSmall(n, c) ==
    LET d == DivRem(n, c) IN [q |-> Trim(d.q), sticky |-> d.r # 0]

RECURSIVE BitsOf(_)
BitsOf(x) == IF x = 0 THEN 0 ELSE 1 + BitsOf(x \div 2)

BitLen(n) ==
    IF n = <<>> THEN 0 ELSE LimbBits * (Len(n) - 1) + BitsOf(n[Len(n)])

\* floor(n / 2^k) and whether a one bit was shifted out
ShiftRight(n, k) ==
    LET j    == k \div LimbBits
        r    == k % LimbBits
        low  == SubSeq(n, 1, IF j < Len(n) THEN j ELSE Len(n))
        high == SubSeq(n, j + 1, Len(n))
        d    == DivSmall(high, Pow2(r))
    IN  [q |-> d.q,
         sticky |-> d.sticky \/ \E i \in 1..Len(low) : low[i] # 0]

RECURSIVE AddOne(_)
AddOne(n) ==
    IF n = <<>> THEN <<1>>
    ELSE IF Head(n) + 1 < LimbBase THEN <<Head(n) + 1>> \o Tail(n)
    ELSE <<0>> \o AddOne(Tail(n))

RECURSIVE ToInt(_)
ToInt(n) == IF n = <<>> THEN 0 ELSE Head(n) + LimbBase * ToInt(Tail(n))

\* n * 2^k
ShiftLeft(n, k) ==
    IF n = <<>> THEN <<>>
    ELSE MulSmall([i \in 1..(k \div LimbBits) |-> 0] \o n, Pow2(k % LimbBits))

FZero == [sign |-> 0, sig |-> <<>>, exp |-> 0]

\* n * 2^e (n > 0; sticky: n is the floor of a value that is not a whole
\* number) rounded to a 53 bit significand, to nearest, ties to even
RoundNearestEven(sign, n, e, sticky) ==
    LET bl   == BitLen(n)
        up   == IF bl < 54 THEN 54 - bl ELSE 0
        s    == IF bl > 54 THEN bl - 54 ELSE 0
        sh   == ShiftRight(ShiftLeft(n, up), s)
        half == sh.q[1] % 2 = 1
        m    == ShiftRight(sh.q, 1).q
        odd  == m[1] % 2 = 1
        inc  == half /\ (sh.sticky \/ sticky \/ odd)
        m1   == IF inc THEN AddOne(m) ELSE m
        over == BitLen(m1) > 53
    IN  [sign |-> sign,
         sig  |-> IF over THEN ShiftRight(m1, 1).q ELSE m1,
         exp  |-> e + s - up + 1 + (IF over THEN 1 ELSE 0)]

Abs(i) == IF i < 0 THEN -i ELSE i

Sgn(i) == IF i < 0 THEN -1 ELSE IF i = 0 THEN 0 ELSE 1

\* float64(i) for an int i; exact for the ints of the model
Float64(i) ==
    IF i = 0 THEN FZero ELSE RoundNearestEven(Sgn(i), Trim(<<Abs(i)>>), 0, FALSE)

\* x * float64(c), correctly rounded
FMul(x, c) ==
    IF x.sign = 0 \/ c = 0 THEN FZero
    ELSE RoundNearestEven(x.sign * Sgn(c), MulSmall(x.sig, Abs(c)), x.exp, FALSE)

\* x / float64(c), correctly rounded (c # 0)
FDiv(x, c) ==
    IF x.sign = 0 THEN FZero
    ELSE LET d == DivSmall(ShiftLeft(x.sig, 2 * LimbBits), Abs(c))
         IN  RoundNearestEven(x.sign * Sgn(c), d.q, x.exp - 2 * LimbBits, d.sticky)

\* int(x): the conversion truncates toward zero
FTrunc(x) ==
    IF x.sign = 0 THEN 0
    ELSE x.sign * ToInt(IF x.exp >= 0 THEN ShiftLeft(x.sig, x.exp)
                        ELSE ShiftRight(x.sig, -x.exp).q)

FPositive(x) == x.sign = 1

\* Scale calculates the new pixel size based on pct scaling factor
Scale(pct, size) == FTrunc(FMul(FDiv(pct, 100), size))

(***************************************************************************)
(* Bounds of the model.                                                    *)
(***************************************************************************)
\* intrinsic widths and heights are 1..MaxDim, and WideDim
MaxDim == 3

WideDim == 50

\* -max and -min range over 0..MaxSide
MaxSide == 2

\* -mw and -mh are 0 or BoxSide, -w and -h are -1, 0 or BoxSide
BoxSide == 2

\* at most MaxFaults of the collaborators' calls fail in one environment
MaxFaults == 2

\* validateOutputFile is followed for MaxCalls calls and external changes
MaxCalls == 3

Dims == (1..MaxDim) \cup {WideDim}

\* the texts given to -pct, as num/den: 0 (unset), -5, 25, 58 and 12.5
PctArgs ==
    {[num |-> 0, den |-> 1], [num |-> -5, den |-> 1], [num |-> 25, den |-> 1],
     [num |-> 58, den |-> 1], [num |-> 125, den |-> 10]}

\* flag.Float64Var: the float64 nearest to the decimal text
ParseFloat(arg) == FDiv(Float64(arg.num), arg.den)

(***************************************************************************)
(* File names: the stem as a list of pieces, and the extension.            *)
(***************************************************************************)
NoName == [stem |-> <<>>, ext |-> ""]

InName == [stem |-> <<"in">>, ext |-> ".jpeg"]

OutName == [stem |-> <<"out">>, ext |-> ".png"]

\* strings.TrimSuffix(name, ext) + "_opt" + ext
OptName(name) == [stem |-> Append(name.stem, "_opt"), ext |-> name.ext]

Files == {OutName, OptName(InName)}

(***************************************************************************)
(* The program's state.                                                    *)
(***************************************************************************)
VARIABLES
    cmdline,      \* the flags as flag.Parse read them
    opt,          \* the global Options, refined in place by main
    env,          \* the input image and which collaborator calls fail
    fs,           \* the destination paths as os.Stat reports them: "absent",
                  \* "file", "undeletable" (os.Remove fails on it), "written"
                  \* (this run's output) or "partial" (a failed write's rest)
    pc,           \* main's position
    header,       \* decoder.Header(): the intrinsic Width and Height
    resizeMethod, \* the resize mode handed to the codec
    opts,         \* the lilliput.ImageOptions handed to Transform
    exitCode,     \* -1 while running, then the process's exit code
    console,      \* what was printed: <<stream, message>>
    summary,      \* the values of the summary table, once printed
    steps,        \* the steps main has executed, in order
    earlier,      \* the previous invocation of the pair, once it has ended
    resolved,     \* the previous resolution, when its result is resolved again
    calls         \* the calls of validateOutputFile and the external changes

vars == <<cmdline, opt, env, fs, pc, header, resizeMethod, opts, exitCode,
          console, summary, steps, earlier, resolved, calls>>

None == [none |-> TRUE]

\* Max calculates the maximum of two integers
Max(a, b) == IF b > a THEN b ELSE a

\* Min calculates the minimum of two integers
Min(a, b) == IF b < a THEN b ELSE a

\* the steps of main, in program order
ProgramOrderValidateLate ==
    <<"checkinput", "read", "outname", "decode", "header", "outputtype",
      "maxlongest", "minshortest", "width", "height", "method", "validate",
      "transform", "write", "report", "exit">>

ProgramOrder ==
    <<"checkinput", "read", "outname", "validate", "decode", "header",
      "outputtype", "maxlongest", "minshortest", "width", "height", "method",
      "transform", "write", "report", "exit">>

After(step) ==
    ProgramOrder[1 + CHOOSE i \in 1..Len(ProgramOrder) : ProgramOrder[i] = step]

(***************************************************************************)
(* Dimension resolution: opt.pctResize, opt.outputWidth, opt.outputHeight  *)
(* and resizeMethod, as main computes them from the header.                *)
(***************************************************************************)
\* if opt.maxLongest > 0 { if longest > opt.maxLongest { opt.pctResize = ... } }
PctAfterMaxLongest(o, h) ==
    LET longest == Max(h.Width, h.Height)
    IN  IF o.maxLongest > 0 /\ longest > o.maxLongest
        THEN FMul(FDiv(Float64(o.maxLongest), longest), 100)
        ELSE o.pctResize

MinShortestSkippedAfterMax(o, h) ==
    LET shortest == Min(h.Width, h.Height)
    IN  IF o.minShortest > 0 /\ shortest > o.minShortest
           /\ ~(o.maxLongest > 0 /\ Max(h.Width, h.Height) > o.maxLongest)
        THEN FMul(FDiv(Float64(o.minShortest), shortest), 100)
        ELSE o.pctResize

\* if opt.minShortest > 0 { if shortest > opt.minShortest { opt.pctResize = ... } }
PctAfterMinShortest(o, h) ==
    LET shortest == Min(h.Width, h.Height)
    IN  IF o.minShortest > 0 /\ shortest > o.minShortest
        THEN FMul(FDiv(Float64(o.minShortest), shortest), 100)
        ELSE o.pctResize

OutputWidthMaxFirst(o, h) ==
    IF o.maxWidth > 0 THEN o.maxWidth
    ELSE IF FPositive(o.pctResize) THEN Scale(o.pctResize, h.Width)
    ELSE IF o.outputWidth = 0 THEN h.Width
    ELSE o.outputWidth

\* the closure assigned to opt.outputWidth
OutputWidth(o, h) ==
    IF FPositive(o.pctResize) THEN Scale(o.pctResize, h.Width)
    ELSE IF o.maxWidth > 0 THEN o.maxWidth
    ELSE IF o.outputWidth = 0 THEN h.Width
    ELSE o.outputWidth

OutputHeightFromWidth(o, h) ==
    IF FPositive(o.pctResize) THEN Scale(o.pctResize, h.Height)
    ELSE IF o.maxHeight > 0 THEN o.maxHeight
    ELSE IF o.outputHeight = 0 THEN h.Width
    ELSE o.outputHeight

\* the closure assigned to opt.outputHeight
OutputHeight(o, h) ==
    IF FPositive(o.pctResize) THEN Scale(o.pctResize, h.Height)
    ELSE IF o.maxHeight > 0 THEN o.maxHeight
    ELSE IF o.outputHeight = 0 THEN h.Height
    ELSE o.outputHeight

ResizeMethodNoOverride(o, h) ==
    IF o.stretch THEN "ImageOpsResize" ELSE "ImageOpsFit"

\* ImageOpsFit, ImageOpsResize with -stretch, ImageOpsNoResize when nothing changes
ResizeMethod(o, h) ==
    IF o.outputWidth = h.Width /\ o.outputHeight = h.Height THEN "ImageOpsNoResize"
    ELSE IF o.stretch THEN "ImageOpsResize"
    ELSE "ImageOpsFit"

MaxLongestStep ==
    /\ pc = "maxlongest"
    /\ opt' = [opt EXCEPT !.pctResize = PctAfterMaxLongest(opt, header)]
    /\ console' = IF opt.maxLongest > 0 /\ Max(header.Width, header.Height) > opt.maxLongest
                  THEN Append(console, <<"stdout", "Resizing to longest dimension">>)
                  ELSE console
    /\ pc' = After("maxlongest")
    /\ steps' = Append(steps, "maxlongest")
    /\ UNCHANGED <<cmdline, env, fs, header, resizeMethod, opts, exitCode,
                   summary, earlier, resolved, calls>>

MinShortestStep ==
    /\ pc = "minshortest"
    /\ opt' = [opt EXCEPT !.pctResize = PctAfterMinShortest(opt, header)]
    /\ console' = IF opt.minShortest > 0 /\ Min(header.Width, header.Height) > opt.minShortest
                  THEN Append(console, <<"stdout", "Resizing shortest dimension">>)
                  ELSE console
    /\ pc' = After("minshortest")
    /\ steps' = Append(steps, "minshortest")
    /\ UNCHANGED <<cmdline, env, fs, header, resizeMethod, opts, exitCode,
                   summary, earlier, resolved, calls>>

WidthStep ==
    /\ pc = "width"
    /\ opt' = [opt EXCEPT !.outputWidth = OutputWidth(opt, header)]
    /\ pc' = After("width")
    /\ steps' = Append(steps, "width")
    /\ UNCHANGED <<cmdline, env, fs, header, resizeMethod, opts, exitCode,
                   console, summary, earlier, resolved, calls>>

HeightStep ==
    /\ pc = "height"
    /\ opt' = [opt EXCEPT !.outputHeight = OutputHeight(opt, header)]
    /\ pc' = After("height")
    /\ steps' = Append(steps, "height")
    /\ UNCHANGED <<cmdline, env, fs, header, resizeMethod, opts, exitCode,
                   console, summary, earlier, resolved, calls>>

MethodStep ==
    /\ pc = "method"
    /\ resizeMethod' = ResizeMethod(opt, header)
    /\ pc' = After("method")
    /\ steps' = Append(steps, "method")
    /\ UNCHANGED <<cmdline, opt, env, fs, header, opts, exitCode,
                   console, summary, earlier, resolved, calls>>

(***************************************************************************)
(* The command line and init(): flag.Parse fills the global opt.           *)
(***************************************************************************)
SizingArgs ==
    [outputWidth : {-1, 0, BoxSide}, outputHeight : {-1, 0, BoxSide},
     maxWidth : {0, BoxSide}, maxHeight : {0, BoxSide},
     maxLongest : 0..MaxSide, minShortest : 0..MaxSide, pct : PctArgs]

NoSizingArgs ==
    [outputWidth |-> 0, outputHeight |-> 0, maxWidth |-> 0, maxHeight |-> 0,
     maxLongest |-> 0, minShortest |-> 0, pct |-> [num |-> 0, den |-> 1]]

CommandLine(sizing, i, o, stretch, force, noAction) ==
    [inputFilename |-> i, outputFilename |-> o, sizing |-> sizing,
     stretch |-> stretch, force |-> force, noAction |-> noAction]

\* init(): the flags' values become the fields of opt
ParseFlags(c) ==
    [inputFilename |-> c.inputFilename, outputFilename |-> c.outputFilename,
     outputWidth |-> c.sizing.outputWidth, outputHeight |-> c.sizing.outputHeight,
     maxWidth |-> c.sizing.maxWidth, maxHeight |-> c.sizing.maxHeight,
     maxLongest |-> c.sizing.maxLongest, minShortest |-> c.sizing.minShortest,
     pctResize |-> ParseFloat(c.sizing.pct),
     stretch |-> c.stretch, force |-> c.force, noAction |-> c.noAction]

StillImage ==
    [Width |-> MaxDim, Height |-> 1, duration |-> 0, inputLen |-> 2, outputLen |-> 1]

NoFaults == [faults |-> {}, image |-> StillImage, fs0 |-> [f \in Files |-> "absent"]]

(***************************************************************************)
(* The resolution on its own: every sizing flag, every intrinsic size.     *)
(***************************************************************************)
InitResolve ==
    /\ cmdline \in {CommandLine(sz, InName, OutName, st, FALSE, TRUE) :
                        sz \in SizingArgs, st \in BOOLEAN}
    /\ opt = ParseFlags(cmdline)
    /\ header \in [Width : Dims, Height : Dims]
    /\ env = NoFaults
    /\ fs = [f \in Files |-> "absent"]
    /\ pc = "maxlongest"
    /\ resizeMethod = "unset"
    /\ opts = None
    /\ exitCode = -1
    /\ console = <<>>
    /\ summary = None
    /\ steps = <<>>
    /\ earlier = None
    /\ resolved = None
    /\ calls = <<>>

\* the resolved dimensions become the intrinsic size of a resolution with no
\* sizing flag set
Reresolve ==
    /\ pc = "transform"
    /\ resolved = None
    /\ resolved' = [from |-> header, Width |-> opt.outputWidth,
                    Height |-> opt.outputHeight]
    /\ header' = [Width |-> opt.outputWidth, Height |-> opt.outputHeight]
    /\ cmdline' = [cmdline EXCEPT !.sizing = NoSizingArgs]
    /\ opt' = ParseFlags(cmdline')
    /\ resizeMethod' = "unset"
    /\ pc' = "maxlongest"
    /\ steps' = <<>>
    /\ UNCHANGED <<env, fs, opts, exitCode, console, summary, earlier, calls>>

NextResolve ==
    \/ MaxLongestStep
    \/ MinShortestStep
    \/ WidthStep
    \/ HeightStep
    \/ MethodStep
    \/ Reresolve

SpecResolve == InitResolve /\ [][NextResolve]_vars

(***************************************************************************)
(* The output-file guard.                                                  *)
(***************************************************************************)
ValidateWithoutRemoving(f, filename, force) ==
    IF f[filename] # "absent" /\ ~force
    THEN [err |-> "exists", fs |-> f, printed |-> <<>>]
    ELSE [err |-> "none", fs |-> f, printed |-> <<>>]

\* Check if output file is valid.  os.Stat finds the path unless it is absent;
\* os.Remove fails on a path that cannot be deleted and then leaves it.
validateOutputFile(f, filename, force) ==
    IF f[filename] # "absent"
    THEN IF ~force
         THEN [err |-> "exists", fs |-> f, printed |-> <<>>]
         ELSE IF f[filename] = "undeletable"
         THEN [err |-> "remove", fs |-> f, printed |-> <<>>]
         ELSE [err |-> "none", fs |-> [f EXCEPT ![filename] = "absent"],
               printed |-> << <<"stdout", "output file exists; replacing due to -f.">> >>]
    ELSE [err |-> "none", fs |-> f, printed |-> <<>>]

(***************************************************************************)
(* main, one action for each step.                                         *)
(***************************************************************************)
\* the collaborators' calls that can fail: ioutil.ReadFile, lilliput.NewDecoder,
\* decoder.Header, ops.Transform, and ioutil.WriteFile either before it has
\* created the file or after (the file is then left truncated or partial)
Faults == {"read", "decode", "header", "transform", "writeopen", "writedata"}

AnimatedImage ==
    [Width |-> MaxDim, Height |-> MaxDim, duration |-> 1, inputLen |-> 2, outputLen |-> 3]

\* os.Exit(1) after a message
Exit1(stream, message, step) ==
    /\ pc' = "exit"
    /\ exitCode' = 1
    /\ console' = Append(console, <<stream, message>>)
    /\ steps' = Append(steps, step)

Continue(step) ==
    /\ pc' = After(step)
    /\ steps' = Append(steps, step)

CheckInput ==
    /\ pc = "checkinput"
    /\ IF opt.inputFilename = NoName
       THEN Exit1("stdout", "No input filename provided, quitting.", "checkinput")
       ELSE Continue("checkinput") /\ UNCHANGED <<exitCode, console>>
    /\ UNCHANGED <<cmdline, opt, env, fs, header, resizeMethod, opts, summary,
                   earlier, resolved, calls>>

ReadInput ==
    /\ pc = "read"
    /\ IF "read" \in env.faults
       THEN Exit1("stderr", "failed to read input file", "read")
       ELSE Continue("read") /\ UNCHANGED <<exitCode, console>>
    /\ UNCHANGED <<cmdline, opt, env, fs, header, resizeMethod, opts, summary,
                   earlier, resolved, calls>>

DefaultOutput ==
    /\ pc = "outname"
    /\ opt' = IF opt.outputFilename = NoName
              THEN [opt EXCEPT !.outputFilename = OptName(opt.inputFilename)]
              ELSE opt
    /\ Continue("outname")
    /\ UNCHANGED <<cmdline, env, fs, header, resizeMethod, opts, exitCode,
                   console, summary, earlier, resolved, calls>>

ValidateStep ==
    /\ pc = "validate"
    /\ IF ~opt.noAction
       THEN LET v == validateOutputFile(fs, opt.outputFilename, opt.force)
            IN  /\ fs' = v.fs
                /\ IF v.err # "none"
                   THEN /\ pc' = "exit"
                        /\ exitCode' = 1
                        /\ console' = Append(console \o v.printed, <<"stderr", v.err>>)
                        /\ steps' = Append(steps, "validate")
                   ELSE /\ Continue("validate")
                        /\ console' = console \o v.printed
                        /\ UNCHANGED exitCode
       ELSE /\ pc' = After("validate")
            /\ steps' = Append(steps, "displayonly")
            /\ console' = Append(console, <<"stdout", "**Displaying results only**">>)
            /\ UNCHANGED <<fs, exitCode>>
    /\ UNCHANGED <<cmdline, opt, env, header, resizeMethod, opts, summary,
                   earlier, resolved, calls>>

NewDecoder ==
    /\ pc = "decode"
    /\ IF "decode" \in env.faults
       THEN Exit1("stderr", "error decoding image", "decode")
       ELSE Continue("decode") /\ UNCHANGED <<exitCode, console>>
    /\ UNCHANGED <<cmdline, opt, env, fs, header, resizeMethod, opts, summary,
                   earlier, resolved, calls>>

Header ==
    /\ pc = "header"
    /\ IF "header" \in env.faults
       THEN Exit1("stderr", "error reading image header", "header") /\ UNCHANGED header
       ELSE /\ header' = [Width |-> env.image.Width, Height |-> env.image.Height]
            /\ Continue("header")
            /\ console' = IF env.image.duration # 0
                          THEN Append(console, <<"stdout", "duration">>)
                          ELSE console
            /\ UNCHANGED exitCode
    /\ UNCHANGED <<cmdline, opt, env, fs, resizeMethod, opts, summary,
                   earlier, resolved, calls>>

\* outputType is the extension of the output name, which is never empty here
OutputType ==
    /\ pc = "outputtype"
    /\ opts' = [FileType |-> opt.outputFilename.ext]
    /\ Continue("outputtype")
    /\ UNCHANGED <<cmdline, opt, env, fs, header, resizeMethod, exitCode,
                   console, summary, earlier, resolved, calls>>

Transform ==
    /\ pc = "transform"
    /\ opts' = [FileType |-> opts.FileType, Width |-> opt.outputWidth,
                Height |-> opt.outputHeight, ResizeMethod |-> resizeMethod,
                NormalizeOrientation |-> TRUE]
    /\ IF "transform" \in env.faults
       THEN Exit1("stderr", "error transforming image", "transform")
       ELSE Continue("transform") /\ UNCHANGED <<exitCode, console>>
    /\ UNCHANGED <<cmdline, opt, env, fs, header, resizeMethod, summary,
                   earlier, resolved, calls>>

WriteOutputAlways ==
    /\ pc = "write"
    /\ fs' = [fs EXCEPT ![opt.outputFilename] = "written"]
    /\ Continue("write")
    /\ UNCHANGED <<cmdline, opt, env, header, resizeMethod, opts, exitCode,
                   console, summary, earlier, resolved, calls>>

WriteOutput ==
    /\ pc = "write"
    /\ IF opt.noAction
       THEN /\ pc' = After("write")
            /\ steps' = Append(steps, "nowrite")
            /\ UNCHANGED <<fs, exitCode, console>>
       ELSE IF "writeopen" \in env.faults
       THEN Exit1("stderr", "error writing resized image", "write") /\ UNCHANGED fs
       ELSE IF "writedata" \in env.faults
       THEN /\ Exit1("stderr", "error writing resized image", "write")
            /\ fs' = [fs EXCEPT ![opt.outputFilename] = "partial"]
       ELSE /\ fs' = [fs EXCEPT ![opt.outputFilename] = "written"]
            /\ Continue("write")
            /\ UNCHANGED <<exitCode, console>>
    /\ UNCHANGED <<cmdline, opt, env, header, resizeMethod, opts, summary,
                   earlier, resolved, calls>>

\* the values printed in the table; the two sizes are the arguments of
\* Humanize and of the size reduction
Report ==
    /\ pc = "report"
    /\ summary' = [inputFilename |-> opt.inputFilename,
                   outputFilename |-> opt.outputFilename,
                   Width |-> header.Width, Height |-> header.Height,
                   outputWidth |-> opt.outputWidth, outputHeight |-> opt.outputHeight,
                   inputSize |-> env.image.inputLen, outputSize |-> env.image.outputLen]
    /\ console' = Append(console, <<"stdout", "summary">>)
    /\ pc' = After("report")
    /\ exitCode' = 0
    /\ steps' = Append(steps, "report")
    /\ UNCHANGED <<cmdline, opt, env, fs, header, resizeMethod, opts,
                   earlier, resolved, calls>>

\* the same command line with -n toggled, on the same initial filesystem
Reinvoke ==
    /\ pc = "exit"
    /\ earlier = None
    /\ earlier' = [noAction |-> cmdline.noAction, exitCode |-> exitCode,
                   summary |-> summary, fs |-> fs, steps |-> steps]
    /\ cmdline' = [cmdline EXCEPT !.noAction = ~@]
    /\ opt' = ParseFlags(cmdline')
    /\ fs' = env.fs0
    /\ pc' = "checkinput"
    /\ header' = None
    /\ resizeMethod' = "unset"
    /\ opts' = None
    /\ exitCode' = -1
    /\ console' = <<>>
    /\ summary' = None
    /\ steps' = <<>>
    /\ UNCHANGED <<env, resolved, calls>>

MainArgs ==
    {<<NoSizingArgs, FALSE>>,
     <<[NoSizingArgs EXCEPT !.maxLongest = MaxSide], FALSE>>,
     <<[NoSizingArgs EXCEPT !.pct = [num |-> 58, den |-> 1]], TRUE>>,
     <<[NoSizingArgs EXCEPT !.outputWidth = MaxDim, !.outputHeight = MaxDim], TRUE>>}

Init ==
    /\ cmdline \in {CommandLine(a[1], i, o, a[2], f, n) :
                        a \in MainArgs, i \in {NoName, InName},
                        o \in {NoName, OutName}, f \in BOOLEAN, n \in BOOLEAN}
    /\ opt = ParseFlags(cmdline)
    /\ env \in {e \in [faults : SUBSET Faults, image : {StillImage, AnimatedImage},
                       fs0 : [Files -> {"absent", "file", "undeletable"}]] :
                    Cardinality(e.faults) <= MaxFaults}
    /\ fs = env.fs0
    /\ pc = "checkinput"
    /\ header = None
    /\ resizeMethod = "unset"
    /\ opts = None
    /\ exitCode = -1
    /\ console = <<>>
    /\ summary = None
    /\ steps = <<>>
    /\ earlier = None
    /\ resolved = None
    /\ calls = <<>>

Next ==
    \/ CheckInput
    \/ ReadInput
    \/ DefaultOutput
    \/ ValidateStep
    \/ NewDecoder
    \/ Header
    \/ OutputType
    \/ MaxLongestStep
    \/ MinShortestStep
    \/ WidthStep
    \/ HeightStep
    \/ MethodStep
    \/ Transform
    \/ WriteOutput
    \/ Report
    \/ Reinvoke

Spec == Init /\ [][Next]_vars

(***************************************************************************)
(* Claims about the dimension resolution (checked under SpecResolve).      *)
(***************************************************************************)
Longest == Max(header.Width, header.Height)

Shortest == Min(header.Width, header.Height)

MaxLongestFires == cmdline.sizing.maxLongest > 0 /\ Longest > cmdline.sizing.maxLongest

MinShortestFires == cmdline.sizing.minShortest > 0 /\ Shortest > cmdline.sizing.minShortest

\* max-longest-side / max(W,H) * 100 and min-shortest-side / min(W,H) * 100
MaxLongestPct == FMul(FDiv(Float64(cmdline.sizing.maxLongest), Longest), 100)

MinShortestPct == FMul(FDiv(Float64(cmdline.sizing.minShortest), Shortest), 100)

SuppliedPct == ParseFloat(cmdline.sizing.pct)

PctSettled == pc \in {"width", "height", "method", "transform"}

Resolved == pc = "transform"

\* C1 as stated: the percentage is chosen by first match, max-longest-side
\* before min-shortest-side before the supplied percentage.
C1_FirstMatchWins ==
    PctSettled =>
        opt.pctResize = IF MaxLongestFires THEN MaxLongestPct
                        ELSE IF MinShortestFires THEN MinShortestPct
                        ELSE SuppliedPct

\* C1 amended: the rules are applied in order and a later one that fires
\* overwrites: min-shortest-side when it fires, else max-longest-side when it
\* fires, else the supplied percentage.
C1_LastMatchWins ==
    PctSettled =>
        opt.pctResize = IF MinShortestFires THEN MinShortestPct
                        ELSE IF MaxLongestFires THEN MaxLongestPct
                        ELSE SuppliedPct

C1_BothFire ==
    /\ PctSettled
    /\ MaxLongestFires /\ MinShortestFires
    /\ MaxLongestPct # MinShortestPct
    /\ FPositive(SuppliedPct)
    /\ opt.pctResize = MinShortestPct

TargetAxis(pct, intrinsic, maxSide, explicit) ==
    IF FPositive(pct) THEN Scale(pct, intrinsic)
    ELSE IF maxSide > 0 THEN maxSide
    ELSE IF explicit = 0 THEN intrinsic
    ELSE explicit

\* C2: each target axis is the scaled intrinsic size when the surviving
\* percentage is positive, else the axis's max when positive, else the
\* intrinsic size when the explicit size is zero, else the explicit size;
\* the other axis's max and explicit settings play no part.
C2_AxisPrecedence ==
    /\ pc \in {"height", "method", "transform"} =>
           opt.outputWidth = TargetAxis(opt.pctResize, header.Width,
                                        cmdline.sizing.maxWidth,
                                        cmdline.sizing.outputWidth)
    /\ pc \in {"method", "transform"} =>
           opt.outputHeight = TargetAxis(opt.pctResize, header.Height,
                                         cmdline.sizing.maxHeight,
                                         cmdline.sizing.outputHeight)

C2_PctBeatsBox ==
    /\ Resolved
    /\ FPositive(opt.pctResize)
    /\ cmdline.sizing.maxWidth > 0 /\ cmdline.sizing.outputHeight > 0
    /\ cmdline.sizing.maxHeight = 0
    /\ opt.outputWidth # cmdline.sizing.maxWidth
    /\ opt.outputHeight # cmdline.sizing.outputHeight

\* C3: the mode is no-resize exactly when the target equals the intrinsic
\* size, whatever the stretch flag; otherwise free-stretch with the stretch
\* flag and fit-crop without it.
C3_ResizeMode ==
    Resolved =>
        LET same == opt.outputWidth = header.Width /\ opt.outputHeight = header.Height
        IN  /\ resizeMethod \in {"ImageOpsNoResize", "ImageOpsResize", "ImageOpsFit"}
            /\ (resizeMethod = "ImageOpsNoResize") <=> same
            /\ ~same /\ cmdline.stretch => resizeMethod = "ImageOpsResize"
            /\ ~same /\ ~cmdline.stretch => resizeMethod = "ImageOpsFit"

C3_StretchUnchanged ==
    /\ Resolved
    /\ cmdline.stretch
    /\ cmdline.sizing.outputWidth > 0
    /\ opt.outputWidth = header.Width /\ opt.outputHeight = header.Height
    /\ resizeMethod = "ImageOpsNoResize"

OnlyMaxLongest ==
    cmdline.sizing = [NoSizingArgs EXCEPT !.maxLongest = cmdline.sizing.maxLongest]

\* C4 as stated: with max-longest-side = m and max(W,H) > m the longest
\* side of the target is exactly m, and the other side is the truncated
\* proportional value.
C4_LongestSideIsMax ==
    Resolved /\ OnlyMaxLongest /\ MaxLongestFires =>
        LET m == cmdline.sizing.maxLongest
        IN  /\ Max(opt.outputWidth, opt.outputHeight) = m
            /\ Min(opt.outputWidth, opt.outputHeight) = (Shortest * m) \div Longest

OnlyPct == cmdline.sizing = [NoSizingArgs EXCEPT !.pct = cmdline.sizing.pct]

\* C5 as stated: with only pct = p set, p in (0,100], the target is
\* floor(W*p/100) by floor(H*p/100).
C5_PctIsFloor ==
    Resolved /\ OnlyPct /\ cmdline.sizing.pct.num > 0 =>
        LET p == cmdline.sizing.pct
        IN  /\ opt.outputWidth = (header.Width * p.num) \div (100 * p.den)
            /\ opt.outputHeight = (header.Height * p.num) \div (100 * p.den)

\* C6: with no sizing flag set the target is the intrinsic size and the mode
\* no-resize, for either value of the stretch flag; so resolving the resolved
\* dimensions again with no sizing flag returns them, with mode no-resize.
C6_NoFlagsIsIdentity ==
    /\ Resolved /\ cmdline.sizing = NoSizingArgs =>
           /\ opt.outputWidth = header.Width
           /\ opt.outputHeight = header.Height
           /\ resizeMethod = "ImageOpsNoResize"
    /\ Resolved /\ resolved # None =>
           /\ opt.outputWidth = resolved.Width
           /\ opt.outputHeight = resolved.Height
           /\ resizeMethod = "ImageOpsNoResize"

C6_ResolvedAgain ==
    /\ Resolved
    /\ resolved # None
    /\ cmdline.stretch
    /\ resolved.Width # resolved.from.Width
    /\ resolved.Height # resolved.Width
    /\ opt.outputHeight = resolved.Height

(***************************************************************************)
(* The guard on its own: validateOutputFile called again and again on a    *)
(* filesystem that something else may change between the calls.            *)
(***************************************************************************)
InitValidate ==
    /\ cmdline = CommandLine(NoSizingArgs, InName, OutName, FALSE, FALSE, FALSE)
    /\ opt = ParseFlags(cmdline)
    /\ env = NoFaults
    /\ fs \in [Files -> {"absent", "file", "undeletable"}]
    /\ pc = "validate"
    /\ header = None
    /\ resizeMethod = "unset"
    /\ opts = None
    /\ exitCode = -1
    /\ console = <<>>
    /\ summary = None
    /\ steps = <<>>
    /\ earlier = None
    /\ resolved = None
    /\ calls = <<>>

ValidateCall(filename, force) ==
    /\ pc = "validate"
    /\ Len(calls) < MaxCalls
    /\ LET v == validateOutputFile(fs, filename, force)
       IN  /\ fs' = v.fs
           /\ console' = console \o v.printed
           /\ calls' = Append(calls, [op |-> "validate", filename |-> filename,
                                      force |-> force, err |-> v.err,
                                      before |-> fs, after |-> v.fs])
    /\ UNCHANGED <<cmdline, opt, env, pc, header, resizeMethod, opts, exitCode,
                   summary, steps, earlier, resolved>>

\* something other than the program creates the path
ExternalCreate(filename, kind) ==
    /\ pc = "validate"
    /\ Len(calls) < MaxCalls
    /\ fs[filename] = "absent"
    /\ fs' = [fs EXCEPT ![filename] = kind]
    /\ calls' = Append(calls, [op |-> "create", filename |-> filename,
                               force |-> FALSE, err |-> "none",
                               before |-> fs, after |-> fs'])
    /\ UNCHANGED <<cmdline, opt, env, pc, header, resizeMethod, opts, exitCode,
                   console, summary, steps, earlier, resolved>>

NextValidate ==
    \/ \E filename \in Files, force \in BOOLEAN : ValidateCall(filename, force)
    \/ \E filename \in Files, kind \in {"file", "undeletable"} :
           ExternalCreate(filename, kind)

SpecValidate == InitValidate /\ [][NextValidate]_vars

(***************************************************************************)
(* Claim about the guard (checked under SpecValidate).                     *)
(***************************************************************************)
\* C7: on an existing path validateOutputFile fails with the collision error
\* without force and leaves the file; with force it deletes the file and
\* succeeds, failing with the removal error only if the deletion fails; on an
\* absent path it succeeds and changes nothing.  So a second call with force
\* right after a successful one, nothing recreating the file, never fails.
C7_Guard ==
    /\ \A i \in 1..Len(calls) :
           LET c == calls[i]
               was == c.before[c.filename]
           IN  c.op = "validate" =>
                   /\ \A f \in Files \ {c.filename} : c.after[f] = c.before[f]
                   /\ was # "absent" /\ ~c.force =>
                          c.err = "exists" /\ c.after = c.before
                   /\ was = "file" /\ c.force =>
                          c.err = "none" /\ c.after[c.filename] = "absent"
                   /\ was = "undeletable" /\ c.force =>
                          c.err = "remove" /\ c.after = c.before
                   /\ was = "absent" => c.err = "none" /\ c.after = c.before
    /\ \A i \in 1..(Len(calls) - 1) :
           LET c == calls[i]
               d == calls[i + 1]
           IN  /\ c.op = "validate" /\ c.force /\ c.err = "none"
               /\ d.op = "validate" /\ d.force /\ d.filename = c.filename
               => d.err = "none"

C7_ForcedTwice ==
    \E i \in 1..(Len(calls) - 1) :
        /\ calls[i].op = "validate" /\ calls[i].force
        /\ calls[i].before[calls[i].filename] = "file"
        /\ calls[i].err = "none"
        /\ calls[i + 1].op = "validate" /\ calls[i + 1].force
        /\ calls[i + 1].filename = calls[i].filename
        /\ calls[i + 1].err = "none"

(***************************************************************************)
(* Claims about a whole run (checked under Spec).                          *)
(***************************************************************************)
Ended == pc = "exit"

ThisRun ==
    [noAction |-> cmdline.noAction, exitCode |-> exitCode, summary |-> summary,
     fs |-> fs, steps |-> steps]

PairEnded == Ended /\ earlier # None

DryRun == IF cmdline.noAction THEN ThisRun ELSE earlier

WetRun == IF cmdline.noAction THEN earlier ELSE ThisRun

Last(seq) == seq[Len(seq)]

Before(i) == {steps[j] : j \in 1..(i - 1)}

\* C8 as stated: a dry run never changes the filesystem, and its outcome and
\* report values are those of the run without -n on the same inputs and the
\* same initial filesystem.
C8_DryRunSameOutcome ==
    /\ cmdline.noAction => fs = env.fs0
    /\ PairEnded =>
           /\ DryRun.exitCode = WetRun.exitCode
           /\ DryRun.summary = WetRun.summary

\* C8 amended: a dry run never changes the filesystem; when the run without
\* -n succeeds, the dry run succeeds with the same report values; the two
\* differ only when the run without -n fails at the destination check or at
\* the write, which the dry run skips.
C8_DryRunFrame ==
    /\ cmdline.noAction => fs = env.fs0
    /\ PairEnded =>
           /\ WetRun.exitCode = 0 =>
                  DryRun.exitCode = 0 /\ DryRun.summary = WetRun.summary
           /\ DryRun.exitCode = 1 =>
                  WetRun.exitCode = 1 /\ WetRun.summary = DryRun.summary
           /\ WetRun.exitCode = 1 /\ DryRun.exitCode = 0 =>
                  Last(WetRun.steps) \in {"validate", "write"}

C8_BothSucceed ==
    /\ PairEnded
    /\ WetRun.exitCode = 0 /\ DryRun.exitCode = 0
    /\ cmdline.force
    /\ env.fs0[opt.outputFilename] = "file"
    /\ WetRun.fs[opt.outputFilename] = "written"
    /\ DryRun.fs = env.fs0
    /\ DryRun.summary.outputWidth # DryRun.summary.Width

\* whether the step fails in this run
StepFails(step) ==
    CASE step = "checkinput" -> cmdline.inputFilename = NoName
      [] step = "read" -> "read" \in env.faults
      [] step = "validate" ->
             /\ env.fs0[opt.outputFilename] # "absent"
             /\ ~cmdline.force \/ env.fs0[opt.outputFilename] = "undeletable"
      [] step = "decode" -> "decode" \in env.faults
      [] step = "header" -> "header" \in env.faults
      [] step = "transform" -> "transform" \in env.faults
      [] step = "write" -> env.faults \cap {"writeopen", "writedata"} # {}
      [] OTHER -> FALSE

\* C9 as stated: a run ends with exit code 0, the image transformed, the
\* destination written unless -n, and the summary printed; or with exit code 1
\* at the first step that fails, without the summary and without having
\* produced a destination file.
C9_AllOrNothing ==
    Ended =>
        /\ exitCode \in {0, 1}
        /\ exitCode = 0 =>
               /\ \A i \in 1..Len(steps) : ~StepFails(steps[i])
               /\ "transform" \in Before(Len(steps))
               /\ Last(steps) = "report" /\ summary # None
               /\ Last(console) = <<"stdout", "summary">>
               /\ ~cmdline.noAction => fs[opt.outputFilename] = "written"
        /\ exitCode = 1 =>
               /\ StepFails(Last(steps))
               /\ \A i \in 1..(Len(steps) - 1) : ~StepFails(steps[i])
               /\ summary = None
               /\ \A i \in 1..Len(console) : console[i] # <<"stdout", "summary">>
               /\ \A f \in Files : fs[f] \notin {"written", "partial"}

\* C10 as stated: without -n the destination is checked (and with force
\* deleted) only after the decode, the header and the resolution, and before
\* the transform; a run that fails at the decode or the header has not
\* touched the destination.
C10_ValidateAfterResolve ==
    /\ \A i \in 1..Len(steps) :
           /\ steps[i] = "validate" => {"decode", "header", "method"} \subseteq Before(i)
           /\ steps[i] = "transform" /\ ~cmdline.noAction => "validate" \in Before(i)
    /\ Ended /\ exitCode = 1 /\ Last(steps) \in {"decode", "header"} =>
           "validate" \notin Before(Len(steps)) /\ fs = env.fs0

\* C10 amended: without -n the destination is checked (and with force
\* deleted) right after the input is read and the output name derived, before
\* the decode, the header, the resolution and the transform; a run that fails
\* at the decode or the header has already checked the destination and, with
\* force, deleted an existing file.
C10_ValidateBeforeDecode ==
    /\ \A i \in 1..Len(steps) :
           /\ steps[i] = "validate" =>
                  /\ {"read", "outname"} \subseteq Before(i)
                  /\ Before(i) \cap {"decode", "header", "method", "transform"} = {}
           /\ /\ steps[i] \in {"decode", "header", "maxlongest", "minshortest", "width",
                               "height", "method", "transform", "write"}
              /\ ~cmdline.noAction
              => "validate" \in Before(i)
    /\ Ended /\ exitCode = 1 /\ Last(steps) \in {"decode", "header"} /\ ~cmdline.noAction =>
           /\ "validate" \in Before(Len(steps))
           /\ cmdline.force /\ env.fs0[opt.outputFilename] = "file" =>
                  fs[opt.outputFilename] = "absent"

C10_DeletedThenDecodeFails ==
    /\ Ended /\ exitCode = 1
    /\ Last(steps) = "decode"
    /\ ~cmdline.noAction /\ cmdline.force
    /\ env.fs0[opt.outputFilename] = "file"
    /\ fs[opt.outputFilename] = "absent"

(***************************************************************************)
(* Claim about explicit dimensions (checked under SpecResolve).            *)
(***************************************************************************)
\* C11 as stated: an explicit width (height) that is zero or negative counts
\* as not set: with no positive percentage surviving and max-width
\* (max-height) not positive, the target width (height) is the intrinsic one.
C11_NonPositiveExplicitIsUnset ==
    Resolved /\ ~FPositive(opt.pctResize) =>
        /\ cmdline.sizing.maxWidth <= 0 /\ cmdline.sizing.outputWidth <= 0 =>
               opt.outputWidth = header.Width
        /\ cmdline.sizing.maxHeight <= 0 /\ cmdline.sizing.outputHeight <= 0 =>
               opt.outputHeight = header.Height

====
